---- MODULE Spec2Model ----
(***************************************************************************)
(* CastIron restaurant feed: the get-restaurants edge function             *)
(* (supabase/functions/get-restaurants/index.ts), the table                *)
(* restaurant_interactions it reads, and the client call recordInteraction *)
(* that fills that table.                                                  *)
(*                                                                         *)
(* Representation.                                                         *)
(*  - A string the code takes apart (a place id) is a sequence of tokens:  *)
(*    "places/a" is <<"places/", "a">>.  Other strings are TLA+ strings.   *)
(*  - An optional JSON field is a sequence of length at most one: <<>> is  *)
(*    absent (undefined / null), <<v>> is present with value v.            *)
(*  - A page token is a sequence of characters, " " being white space.     *)
(*  - A JSON value whose type the code tests is [type, value].             *)
(*  - A rating is held in tenths (4.0 is 40) and a score in thousandths of *)
(*    a point, so that rating * 20 and time_spent_ms / 1000 are exact      *)
(*    integers: 80 points are 80000.                                       *)
(***************************************************************************)
EXTENDS Integers, Sequences, FiniteSets, TLC

VARIABLES
    interactions,      \* table public.restaurant_interactions, in insertion order
    pc,                \* position of the get-restaurants handler
    authHeader,        \* the request's Authorization header (optional)
    body,              \* the request's body (optional: absent when it is no JSON object)
    userId,            \* handler local: resolved user id (optional)
    requestBody,       \* handler local: the search posted to the provider (optional)
    calls,             \* the upstream calls the handler made for this request
    places,            \* handler local: data.places of the provider's answer
    nextPageTokenValue, \* handler local: data.nextPageToken (optional)
    userInteractions,  \* handler local: rows delivered by the interaction query
    interactionMap,    \* handler local: place id -> latest {action, time_spent_ms}
    response,          \* the Response the handler returned
    now,               \* the device clock, Date.now()
    viewStartRef,      \* FeedScreen: viewStartRef.current
    currentIndexRef,   \* FeedScreen: currentIndexRef.current
    cardShownAt,       \* the clock reading when the visible card became visible
    likedIds,          \* FeedScreen: likedIds
    bookmarkedIds,     \* FeedScreen: bookmarkedIds
    bookmarkWrites,    \* the writes addBookmark and removeBookmark issued
    bookmarks,         \* table public.bookmarks
    nextPage           \* caller of fetchRestaurants: nextPageToken of the last page

clientVars == <<now, viewStartRef, currentIndexRef, cardShownAt, likedIds,
                bookmarkedIds, bookmarkWrites, bookmarks, nextPage>>

vars == <<interactions, pc, authHeader, body, userId, requestBody, calls, places,
          nextPageTokenValue, userInteractions, interactionMap, response, clientVars>>

\* The screen right after it was mounted, nothing bookmarked or liked.
ClientInit ==
    /\ now = 0
    /\ viewStartRef = 0
    /\ currentIndexRef = 0
    /\ cardShownAt = 0
    /\ likedIds = {}
    /\ bookmarkedIds = {}
    /\ bookmarkWrites = <<>>
    /\ bookmarks = <<>>
    /\ nextPage = <<>>

(***************************************************************************)
(* Bounds of the model.                                                    *)
(***************************************************************************)
MaxPlaces == 2     \* longest provider list ranked in SpecRank
MaxLog == 2        \* most rows in restaurant_interactions
MaxFetch == 1      \* longest provider list answered inside Spec
MaxTicks == 1      \* most advances of the device clock in SpecFeed
MaxWrites == 2     \* most bookmark writes issued in SpecStore

(***************************************************************************)
(* Input universes.                                                        *)
(***************************************************************************)
PlaceIds == { <<"places/", "a">>, <<"a">>, <<"places/", "b">> }
PlaceKeys == { <<"a">>, <<"b">> }
DisplayNames == { <<>>, <<"">>, <<"Unknown">>, <<"Cafe">> }
Ratings == { <<>>, <<40>> }
Users == { "u1", "u2" }

\* The places of SpecRank and Spec carry no type tags and no location.
RawPlaces ==
    [id : PlaceIds, displayName : DisplayNames, rating : Ratings,
     primaryType : { <<>> }, types : { <<>> }, location : { <<>> }]

Signals ==
    { [action |-> "like", time_spent_ms |-> 12000],
      [action |-> "skip", time_spent_ms |-> 500],
      [action |-> "unlike", time_spent_ms |-> 12000] }

SeqsUpTo(S, n) == UNION { [1..k -> S] : k \in 0..n }

SignalMaps == UNION { [D -> Signals] : D \in SUBSET PlaceKeys }

Min(a, b) == IF a <= b THEN a ELSE b

Max(a, b) == IF a >= b THEN a ELSE b

(***************************************************************************)
(* Place normalisation and scoring (index.ts 156-207).                     *)
(***************************************************************************)
\* String.prototype.replace(pattern, "") with a string pattern: the first
\* occurrence of the pattern is removed, wherever it is.
Replace(s, pat) ==
    IF \E i \in 1..Len(s) : s[i] = pat
    THEN LET i == CHOOSE j \in 1..Len(s) :
                      /\ s[j] = pat
                      /\ \A k \in 1..(j - 1) : s[k] # pat
         IN SubSeq(s, 1, i - 1) \o SubSeq(s, i + 1, Len(s))
    ELSE s

\* const placeId = p.id?.replace("places/", "") ?? p.id
PlaceIdOf(p) == Replace(p.id, "places/")

\* const name = p.displayName?.text ?? "Unknown"
NameOf(p) == IF p.displayName = <<>> THEN "Unknown" ELSE p.displayName[1]

\* const rating = p.rating ?? 0
RatingOf(p) == IF p.rating = <<>> THEN 0 ELSE p.rating[1]

\* const interaction = interactionMap.get(placeId)
InteractionOf(p, imap) ==
    IF PlaceIdOf(p) \in DOMAIN imap THEN << imap[PlaceIdOf(p)] >> ELSE <<>>

\* A scorer that also grants the view-time bonus when there is no interaction
\* record (used to test the scoring properties).
ScoreAlwaysBonus(rating, interaction) ==
    rating * 20 * 100 + 10 * 1000

\* A scorer whose view-time bonus has no cap (used to test the like score).
ScoreUncappedBonus(rating, interaction) ==
    LET base == rating * 20 * 100
    IN  IF interaction = <<>>
        THEN base
        ELSE LET action == interaction[1].action
                 afterAction ==
                     IF action = "like" THEN base + 50 * 1000
                     ELSE IF action = "unlike" THEN base - 30 * 1000
                     ELSE base
             IN  IF action # "unlike"
                 THEN afterAction + interaction[1].time_spent_ms
                 ELSE afterAction

\* A scorer that grants the view-time bonus to every action (used to test the
\* unlike score).
ScoreBonusOnUnlike(rating, interaction) ==
    LET base == rating * 20 * 100
    IN  IF interaction = <<>>
        THEN base
        ELSE LET action == interaction[1].action
                 afterAction ==
                     IF action = "like" THEN base + 50 * 1000
                     ELSE IF action = "unlike" THEN base - 30 * 1000
                     ELSE base
             IN  afterAction + Min(interaction[1].time_spent_ms, 10 * 1000)

\* A scorer that grants the view-time bonus to likes only (used to test the
\* skip score).
ScoreBonusOnLikeOnly(rating, interaction) ==
    LET base == rating * 20 * 100
    IN  IF interaction = <<>>
        THEN base
        ELSE LET action == interaction[1].action
             IN  IF action = "like"
                 THEN base + 50 * 1000 + Min(interaction[1].time_spent_ms, 10 * 1000)
                 ELSE IF action = "unlike" THEN base - 30 * 1000
                 ELSE base

\* let score = rating * 20; if (interaction) { ... }   (index.ts 167-174)
\* rating is in tenths, interaction is optional, the result is in thousandths
\* of a point: time_spent_ms / 1000 points are time_spent_ms thousandths.
Score(rating, interaction) ==
    LET base == rating * 20 * 100
    IN  IF interaction = <<>>
        THEN base
        ELSE LET action == interaction[1].action
                 afterAction ==
                     IF action = "like" THEN base + 50 * 1000
                     ELSE IF action = "unlike" THEN base - 30 * 1000
                     ELSE base
             IN  IF action # "unlike"
                 THEN afterAction + Min(interaction[1].time_spent_ms, 10 * 1000)
                 ELSE afterAction

ScoreOf(p, imap) == Score(RatingOf(p), InteractionOf(p, imap))

\* A replacement of the first underscore only (used to test the cuisine
\* label).
ReplaceFirstUnderscore(tag) ==
    IF \E i \in 1..Len(tag) : tag[i] = "_"
    THEN LET i == CHOOSE j \in 1..Len(tag) :
                      /\ tag[j] = "_"
                      /\ \A k \in 1..(j - 1) : tag[k] # "_"
         IN [k \in 1..Len(tag) |-> IF k = i THEN " " ELSE tag[k]]
    ELSE tag

\* tag.replace(/_/g, " "): a tag is a sequence of words, "_" and " ".
ReplaceUnderscores(tag) == [i \in 1..Len(tag) |-> IF tag[i] = "_" THEN " " ELSE tag[i]]

\* t.includes("restaurant")
IncludesRestaurant(tag) == \E i \in 1..Len(tag) : tag[i] = "restaurant"

\* const cuisine = p.primaryType?.replace(/_/g, " ")
\*     ?? p.types?.find((t) => t.includes("restaurant"))?.replace(/_/g, " ")
\*     ?? "Restaurant"
CuisineOf(p) ==
    IF p.primaryType # <<>>
    THEN ReplaceUnderscores(p.primaryType[1])
    ELSE IF p.types # <<>>
            /\ \E i \in 1..Len(p.types[1]) : IncludesRestaurant(p.types[1][i])
    THEN LET i == CHOOSE j \in 1..Len(p.types[1]) :
                      /\ IncludesRestaurant(p.types[1][j])
                      /\ \A k \in 1..(j - 1) : ~IncludesRestaurant(p.types[1][k])
         IN  ReplaceUnderscores(p.types[1][i])
    ELSE << "Restaurant" >>

Abs(x) == IF x >= 0 THEN x ELSE 0 - x

\* Math.round(R * pi / 180) for R = 6371000: the metres of one degree of
\* latitude.
MetersPerDegree == 111195

\* Math.round(haversineDistanceMeters(lat1, lon1, lat2, lon2)) for two points
\* of one meridian (lon1 = lon2) at most six whole degrees apart, where the
\* great-circle distance is R * |lat2 - lat1| * pi / 180.
HaversineDistanceMeters(lat1, lon1, lat2, lon2) == MetersPerDegree * Abs(lat2 - lat1)

\* typeof placeLat === "number" && typeof placeLng === "number"
\*     ? Math.round(haversineDistanceMeters(lat, lng, placeLat, placeLng)) : undefined
DistanceMetersOf(p, origin) ==
    IF p.location # <<>>
    THEN << HaversineDistanceMeters(origin.lat, origin.lng,
                                    p.location[1].latitude, p.location[1].longitude) >>
    ELSE <<>>

\* The object the .map callback returns (index.ts 195-207), without the
\* fields that are copied from the raw place and play no part in the ranking
\* (address, userRatingCount, photos, priceLevel, openNow).
Normalize(p, imap, origin) ==
    [id |-> PlaceIdOf(p), name |-> NameOf(p), cuisine |-> CuisineOf(p),
     rating |-> RatingOf(p), distanceMeters |-> DistanceMetersOf(p, origin),
     _score |-> ScoreOf(p, imap)]

\* A last step that returns the records as they were sorted (used to test the
\* returned shape).
KeepScore(r) == r

\* .map(({ _score, ...r }) => r)
StripScore(r) ==
    [id |-> r.id, name |-> r.name, cuisine |-> r.cuisine, rating |-> r.rating,
     distanceMeters |-> r.distanceMeters]

MapSeq(s, Op(_)) == [i \in 1..Len(s) |-> Op(s[i])]

\* A filter that keeps every record (used to test the name properties).
KeepAll(r) == TRUE

\* .filter((r) => r.name !== "Unknown")
NameResolved(r) == r.name # "Unknown"

\* A comparator that sorts ascending (used to test the ordering properties).
compareAscending(a, b) == a._score - b._score

\* A comparator that puts the nearest place first (used to test that the
\* ranking ignores the origin).
compareNearestFirst(a, b) ==
    (IF a.distanceMeters = <<>> THEN 0 ELSE a.distanceMeters[1])
    - (IF b.distanceMeters = <<>> THEN 0 ELSE b.distanceMeters[1])

\* (a, b) => b._score - a._score
compare(a, b) == b._score - a._score

\* An insertion that puts a record before the records it ties with (used to
\* test the stability property).
InsertBeforeTies(sorted, r) ==
    LET k == Cardinality({ i \in 1..Len(sorted) : compare(sorted[i], r) < 0 })
    IN  SubSeq(sorted, 1, k) \o << r >> \o SubSeq(sorted, k + 1, Len(sorted))

\* Array.prototype.sort is stable: a record goes behind every record that the
\* comparator does not put after it.
InsertSorted(sorted, r) ==
    LET k == Cardinality({ i \in 1..Len(sorted) : compare(sorted[i], r) <= 0 })
    IN  SubSeq(sorted, 1, k) \o << r >> \o SubSeq(sorted, k + 1, Len(sorted))

RECURSIVE SortPrefix(_, _)
SortPrefix(s, n) ==
    IF n = 0 THEN <<>> ELSE InsertSorted(SortPrefix(s, n - 1), s[n])

\* A pipeline that leaves the records in provider order (used to test the
\* properties that depend on the sort).
Unsorted(s) == s

\* .sort((a, b) => b._score - a._score)
SortByScore(s) == SortPrefix(s, Len(s))

\* const restaurants = places.map(...).filter(...).sort(...).map(...)
Restaurants(ps, imap, origin) ==
    LET scored == MapSeq(ps, LAMBDA p : Normalize(p, imap, origin))
        named == SelectSeq(scored, NameResolved)
    IN  MapSeq(SortByScore(named), StripScore)

\* String.prototype.trim(): white space is removed from both ends.
RECURSIVE TrimStart(_)
TrimStart(s) == IF s # <<>> /\ s[1] = " " THEN TrimStart(Tail(s)) ELSE s

RECURSIVE TrimEnd(_)
TrimEnd(s) ==
    IF s # <<>> /\ s[Len(s)] = " " THEN TrimEnd(SubSeq(s, 1, Len(s) - 1)) ELSE s

Trim(s) == TrimEnd(TrimStart(s))

\* const hasMore = nextPageTokenValue != null
\*                 && String(nextPageTokenValue).trim() !== ""
hasMore(v) == v # <<>> /\ Trim(v[1]) # <<>>

\* A response that hands on whatever the provider gave (used to test the
\* continuation token).
NextPageTokenAsGiven(v) == v

\* nextPageToken: hasMore ? String(nextPageTokenValue) : null
NextPageToken(v) == IF hasMore(v) THEN << v[1] >> ELSE <<>>

\* new Response(JSON.stringify({ restaurants, nextPageToken }))   (index.ts 213-218)
Success(ps, imap, v, origin) ==
    [status |-> 200, restaurants |-> Restaurants(ps, imap, origin),
     nextPageToken |-> NextPageToken(v)]

NoResponse == [status |-> 0]

(***************************************************************************)
(* The interaction store and the aggregator (index.ts 139-154).            *)
(* A row of restaurant_interactions is                                     *)
(*   [user_id, place_id, action, time_spent_ms, created_at].               *)
(***************************************************************************)
EmptyMap == [k \in {} |-> k]

Injections(n) == { f \in [1..n -> 1..n] : \A i, j \in 1..n : f[i] = f[j] => i = j }

\* Every order of the elements of a sequence.
Orderings(s) == { [i \in 1..Len(s) |-> s[f[i]]] : f \in Injections(Len(s)) }

\* created_at timestamptz not null default now(): the clock never runs
\* backwards, and two inserts may read the same instant.
LastCreatedAt(rows) ==
    IF rows = <<>> THEN 0
    ELSE CHOOSE t \in { rows[i].created_at : i \in 1..Len(rows) } :
             \A i \in 1..Len(rows) : rows[i].created_at <= t

\* A query that returns the rows oldest first (used to test the aggregator).
InsertByCreatedAtAsc(sorted, r) ==
    LET k == Cardinality({ i \in 1..Len(sorted) : sorted[i].created_at <= r.created_at })
    IN  SubSeq(sorted, 1, k) \o << r >> \o SubSeq(sorted, k + 1, Len(sorted))

\* .order("created_at", { ascending: false }): rows with equal created_at stay
\* in the order the table holds them.
InsertByCreatedAtDesc(sorted, r) ==
    LET k == Cardinality({ i \in 1..Len(sorted) : sorted[i].created_at >= r.created_at })
    IN  SubSeq(sorted, 1, k) \o << r >> \o SubSeq(sorted, k + 1, Len(sorted))

RECURSIVE OrderPrefix(_, _)
OrderPrefix(rows, n) ==
    IF n = 0 THEN <<>> ELSE InsertByCreatedAtDesc(OrderPrefix(rows, n - 1), rows[n])

OrderByCreatedAtDesc(rows) == OrderPrefix(rows, Len(rows))

\* .select("place_id, action, time_spent_ms")
SelectColumns(r) ==
    [place_id |-> r.place_id, action |-> r.action, time_spent_ms |-> r.time_spent_ms]

\* supabase.from("restaurant_interactions").select(...).eq("user_id", userId)
\*     .order("created_at", { ascending: false })
QueryInteractionRows(rows, uid) ==
    MapSeq(OrderByCreatedAtDesc(SelectSeq(rows, LAMBDA r : r.user_id = uid)),
           SelectColumns)

\* A fold in which a later row overwrites the entry of an earlier one (used
\* to test the aggregator).
SetAlways(m, i) ==
    [k \in DOMAIN m \cup {i.place_id} |->
        IF k = i.place_id
        THEN [action |-> i.action, time_spent_ms |-> i.time_spent_ms]
        ELSE m[k]]

\* if (!interactionMap.has(i.place_id)) interactionMap.set(i.place_id, {...})
SetIfAbsent(m, i) ==
    IF i.place_id \in DOMAIN m
    THEN m
    ELSE [k \in DOMAIN m \cup {i.place_id} |->
            IF k = i.place_id
            THEN [action |-> i.action, time_spent_ms |-> i.time_spent_ms]
            ELSE m[k]]

RECURSIVE FoldPrefix(_, _)
FoldPrefix(log, n) ==
    IF n = 0 THEN EmptyMap ELSE SetIfAbsent(FoldPrefix(log, n - 1), log[n])

\* for (const i of userInteractions) { ... }
InteractionMap(log) == FoldPrefix(log, Len(log))

(***************************************************************************)
(* Requests.                                                               *)
(***************************************************************************)
Credentials == { "t1", "t2", "expired" }
AuthHeaders == { <<>> } \cup { << t >> : t \in Credentials }

\* supabase.auth.getUser(token): the user of a valid credential, else none.
UserOfCredential(t) ==
    IF t = "t1" THEN << "u1" >> ELSE IF t = "t2" THEN << "u2" >> ELSE <<>>

\* Deno.env.get("GOOGLE_PLACES_API_KEY")
ApiKeys == { <<>>, << "key" >> }

\* lat and lng of a body: absent, a number, or a string holding a number.
Coordinates ==
    { <<>>, << [type |-> "number", value |-> 37] >>, << [type |-> "string", value |-> 37] >> }

\* typeof v === "number"
IsNumber(v) == v # <<>> /\ v[1].type = "number"

MinRadius == 100
MaxRadius == 50000
DefaultRadius == 3000

Radii ==
    { <<>> } \cup { << r >> : r \in { 0 - 5, 0, MinRadius - 1, MinRadius, MinRadius + 1,
                                      DefaultRadius, MaxRadius - 1, MaxRadius,
                                      MaxRadius + 1 } }

TokenStrings ==
    { <<>>, <<" ">>, <<" ", " ">>, <<"t">>, <<" ", "t", " ">>, <<"t", " ", "t">> }

\* A page token of the request, a continuation token of the provider's answer.
PageTokens == { <<>> } \cup { << s >> : s \in TokenStrings }

\* The body is absent when req.json() or the destructuring of line 69 throws:
\* no body, a body that is not JSON, the JSON value null.
Bodies ==
    { <<>> } \cup { << b >> : b \in [lat : Coordinates, lng : Coordinates,
                                      radius : Radii, pageToken : PageTokens] }

\* The bodies of Spec: no radius and no page token.
FeedBodies == { b \in Bodies : b # <<>> => b[1].radius = <<>> /\ b[1].pageToken = <<>> }

\* Well-formed places, the provider's answers inside Spec.
FeedPlaces == { p \in RawPlaces : p.displayName = <<"Cafe">> /\ p.rating = <<40>> }

\* The provider's places in SpecPage: one place, so that a page is told from
\* another by its continuation token.
PagePlaces == { p \in FeedPlaces : p.id = <<"places/", "a">> }

\* What the signed-in clients record: user u1 likes, skips and unlikes place
\* a and likes place b; user u2 likes place a.
RecordedEvents ==
    [user : {"u1"}, placeId : { <<"a">> }, sig : Signals]
    \cup [user : {"u1"}, placeId : { <<"b">> },
          sig : { s \in Signals : s.action = "like" }]
    \cup [user : {"u2"}, placeId : { <<"a">> },
          sig : { s \in Signals : s.action = "like" }]

\* fetch(...) throws, answers with a status that is not ok, or answers ok.
FetchOutcomes == { "threw", "status", "ok" }

ConfigError == [status |-> 500, error |-> "Google Places API key not configured"]
BadInput == [status |-> 400, error |-> "lat and lng are required"]

\* A provider failure answered as an empty first page (used to test the
\* failure policy).
EmptyPage == [status |-> 200, restaurants |-> <<>>, nextPageToken |-> <<>>]

UpstreamFailed == [status |-> 502, error |-> "Failed to fetch restaurants"]
InternalError == [status |-> 500, error |-> "Internal server error"]

\* A search that passes the requested radius on (used to test the radius).
RadiusAsRequested(radius) == IF radius = <<>> THEN DefaultRadius ELSE radius[1]

\* const { radius = 3000 } = body;
\* const effectiveRadius = Math.min(Math.max(radius, 100), 50000)
EffectiveRadius(radius) ==
    Min(Max(IF radius = <<>> THEN DefaultRadius ELSE radius[1], MinRadius), MaxRadius)

\* if (pageToken && typeof pageToken === "string" && pageToken.trim())
\*     requestBody.pageToken = pageToken.trim()
ForwardedPageToken(pageToken) ==
    IF pageToken # <<>> /\ pageToken[1] # <<>> /\ Trim(pageToken[1]) # <<>>
    THEN << Trim(pageToken[1]) >>
    ELSE <<>>

\* The lat and lng of a body that passed the test of line 71.
OriginOf(b) == [lat |-> b.lat[1].value, lng |-> b.lng[1].value]

\* const requestBody = { ..., locationBias: { circle: { center, radius } } }
ProviderRequest(b) ==
    [latitude |-> OriginOf(b).lat, longitude |-> OriginOf(b).lng,
     radius |-> EffectiveRadius(b.radius),
     pageToken |-> ForwardedPageToken(b.pageToken)]

(***************************************************************************)
(* Client: recordInteraction (lib/restaurants.ts 68-82).                   *)
(***************************************************************************)
\* A write that replaces the user's earlier event of the place, as an upsert
\* would (used to test that the log is append-only).
UpsertInteraction(u, placeId, sig) ==
    /\ Len(interactions) < MaxLog
    /\ \E t \in { LastCreatedAt(interactions), LastCreatedAt(interactions) + 1 } :
          /\ t > 0
          /\ interactions' =
                Append(SelectSeq(interactions,
                                 LAMBDA r : ~(r.user_id = u /\ r.place_id = placeId)),
                       [user_id |-> u, place_id |-> placeId, action |-> sig.action,
                        time_spent_ms |-> sig.time_spent_ms, created_at |-> t])

InsertInteraction(u, placeId, sig) ==
    /\ Len(interactions) < MaxLog
    /\ \E t \in { LastCreatedAt(interactions), LastCreatedAt(interactions) + 1 } :
          /\ t > 0
          /\ interactions' = Append(interactions,
                 [user_id |-> u, place_id |-> placeId, action |-> sig.action,
                  time_spent_ms |-> sig.time_spent_ms, created_at |-> t])

handlerVars == <<pc, authHeader, body, userId, requestBody, calls, places,
                 nextPageTokenValue, userInteractions, interactionMap, response>>

\* A signed-in client records an event (Spec).
RecordInteraction(u, placeId, sig) ==
    /\ InsertInteraction(u, placeId, sig)
    /\ UNCHANGED handlerVars
    /\ UNCHANGED clientVars

(***************************************************************************)
(* The get-restaurants handler, one action per await (index.ts 54-226).    *)
(***************************************************************************)
\* Lines 59-86: the API key, the body (a throw of req.json() or of the
\* destructuring goes to the catch of line 219), the lat/lng validation.
Request(h, b, apiKey) ==
    /\ UNCHANGED clientVars
    /\ pc = "idle"
    /\ authHeader' = h
    /\ body' = b
    /\ IF apiKey = <<>>
       THEN /\ response' = ConfigError
            /\ pc' = "done"
       ELSE IF b = <<>>
       THEN /\ response' = InternalError
            /\ pc' = "done"
       ELSE IF ~(IsNumber(b[1].lat) /\ IsNumber(b[1].lng))
       THEN /\ response' = BadInput
            /\ pc' = "done"
       ELSE /\ response' = response
            /\ pc' = IF h = <<>> THEN "fetch" ELSE "auth"
    /\ UNCHANGED <<interactions, userId, requestBody, calls, places,
                   nextPageTokenValue, userInteractions, interactionMap>>

\* A lookup that resolves the credential's user although the lookup threw
\* (used to test the identity failure policy).
GetUserDespiteThrow(throws) ==
    /\ UNCHANGED clientVars
    /\ pc = "auth"
    /\ userId' = UserOfCredential(authHeader[1])
    /\ calls' = Append(calls,
           [to |-> "identity",
            outcome |-> IF throws THEN "threw"
                        ELSE IF UserOfCredential(authHeader[1]) = <<>> THEN "none"
                        ELSE "user"])
    /\ pc' = "fetch"
    /\ UNCHANGED <<interactions, authHeader, body, requestBody, places,
                   nextPageTokenValue, userInteractions, interactionMap, response>>

\* Lines 87-94: await supabase.auth.getUser(token); a throw is swallowed.
GetUser(throws) ==
    /\ UNCHANGED clientVars
    /\ pc = "auth"
    /\ userId' = IF throws THEN <<>> ELSE UserOfCredential(authHeader[1])
    /\ calls' = Append(calls,
           [to |-> "identity",
            outcome |-> IF throws THEN "threw"
                        ELSE IF UserOfCredential(authHeader[1]) = <<>> THEN "none"
                        ELSE "user"])
    /\ pc' = "fetch"
    /\ UNCHANGED <<interactions, authHeader, body, requestBody, places,
                   nextPageTokenValue, userInteractions, interactionMap, response>>

\* A handler that posts the search a second time when the first call failed
\* (used to test the no-retry policy).
FetchPlacesRetrying(outcome, ps, tok) ==
    /\ UNCHANGED clientVars
    /\ pc = "fetch"
    /\ requestBody' = << ProviderRequest(body[1]) >>
    /\ calls' = Append(calls, [to |-> "provider", outcome |-> outcome])
    /\ IF outcome # "ok" /\ \A i \in 1..Len(calls) : calls[i].to # "provider"
       THEN /\ pc' = "fetch"
            /\ UNCHANGED <<places, nextPageTokenValue, userInteractions,
                           interactionMap, response>>
       ELSE IF outcome = "threw"
       THEN /\ response' = InternalError
            /\ pc' = "done"
            /\ UNCHANGED <<places, nextPageTokenValue, userInteractions, interactionMap>>
       ELSE IF outcome = "status"
       THEN /\ response' = UpstreamFailed
            /\ pc' = "done"
            /\ UNCHANGED <<places, nextPageTokenValue, userInteractions, interactionMap>>
       ELSE /\ places' = ps
            /\ nextPageTokenValue' = tok
            /\ IF userId = <<>>
               THEN /\ userInteractions' = <<>>
                    /\ interactionMap' = InteractionMap(<<>>)
                    /\ response' = Success(ps, InteractionMap(<<>>), tok, OriginOf(body[1]))
                    /\ pc' = "done"
               ELSE /\ pc' = "query"
                    /\ UNCHANGED <<userInteractions, interactionMap, response>>
    /\ UNCHANGED <<interactions, authHeader, body, userId>>

\* Lines 96-147 and, when no user was resolved, 149-218: the search is posted
\* and the provider answers; without a user the handler runs on to its
\* response.  A throw of fetch goes to the catch of line 219.
FetchPlaces(outcome, ps, tok) ==
    /\ UNCHANGED clientVars
    /\ pc = "fetch"
    /\ requestBody' = << ProviderRequest(body[1]) >>
    /\ calls' = Append(calls, [to |-> "provider", outcome |-> outcome])
    /\ IF outcome = "threw"
       THEN /\ response' = InternalError
            /\ pc' = "done"
            /\ UNCHANGED <<places, nextPageTokenValue, userInteractions, interactionMap>>
       ELSE IF outcome = "status"
       THEN /\ response' = UpstreamFailed
            /\ pc' = "done"
            /\ UNCHANGED <<places, nextPageTokenValue, userInteractions, interactionMap>>
       ELSE /\ places' = ps
            /\ nextPageTokenValue' = tok
            /\ IF userId = <<>>
               THEN /\ userInteractions' = <<>>
                    /\ interactionMap' = InteractionMap(<<>>)
                    /\ response' = Success(ps, InteractionMap(<<>>), tok, OriginOf(body[1]))
                    /\ pc' = "done"
               ELSE /\ pc' = "query"
                    /\ UNCHANGED <<userInteractions, interactionMap, response>>
    /\ UNCHANGED <<interactions, authHeader, body, userId>>

\* Lines 141-218: the interaction query answers (interactions ?? [] when it
\* failed), then the fold, the ranking and the response.
QueryInteractions(ok, table) ==
    /\ UNCHANGED clientVars
    /\ pc = "query"
    /\ calls' = Append(calls, [to |-> "store", outcome |-> IF ok THEN "ok" ELSE "error"])
    /\ LET log == IF ok THEN QueryInteractionRows(table, userId[1]) ELSE <<>>
       IN  /\ userInteractions' = log
           /\ interactionMap' = InteractionMap(log)
           /\ response' = Success(places, InteractionMap(log), nextPageTokenValue,
                               OriginOf(body[1]))
    /\ pc' = "done"
    /\ UNCHANGED <<interactions, authHeader, body, userId, requestBody, places,
                   nextPageTokenValue>>

\* The function instance is ready for the next request.
HandlerReady ==
    /\ pc = "done"
    /\ pc' = "idle"
    /\ authHeader' = <<>>
    /\ body' = <<>>
    /\ userId' = <<>>
    /\ requestBody' = <<>>
    /\ calls' = <<>>
    /\ places' = <<>>
    /\ nextPageTokenValue' = <<>>
    /\ userInteractions' = <<>>
    /\ interactionMap' = EmptyMap
    /\ response' = NoResponse

NextRequest ==
    /\ HandlerReady
    /\ UNCHANGED interactions
    /\ UNCHANGED clientVars

Init ==
    /\ ClientInit
    /\ interactions = <<>>
    /\ pc = "idle"
    /\ authHeader = <<>>
    /\ body = <<>>
    /\ userId = <<>>
    /\ requestBody = <<>>
    /\ calls = <<>>
    /\ places = <<>>
    /\ nextPageTokenValue = <<>>
    /\ userInteractions = <<>>
    /\ interactionMap = EmptyMap
    /\ response = NoResponse

Next ==
    \/ \E e \in RecordedEvents : RecordInteraction(e.user, e.placeId, e.sig)
    \/ \E h \in AuthHeaders, b \in FeedBodies, apiKey \in ApiKeys : Request(h, b, apiKey)
    \/ \E throws \in BOOLEAN : GetUser(throws)
    \/ \E outcome \in FetchOutcomes, ps \in SeqsUpTo(FeedPlaces, MaxFetch) :
          FetchPlaces(outcome, ps, <<>>)
    \/ \E ok \in BOOLEAN, table \in Orderings(interactions) :
          QueryInteractions(ok, table)
    \/ NextRequest

Spec == Init /\ [][Next]_vars

(***************************************************************************)
(* SpecPage: the handler over every radius, page token and continuation    *)
(* token, with an empty interaction table.                                 *)
(***************************************************************************)
NextPage ==
    \/ \E h \in AuthHeaders, b \in Bodies, apiKey \in ApiKeys : Request(h, b, apiKey)
    \/ \E throws \in BOOLEAN : GetUser(throws)
    \/ \E outcome \in FetchOutcomes, ps \in SeqsUpTo(PagePlaces, MaxFetch),
          tok \in PageTokens :
          FetchPlaces(outcome, ps, tok)
    \/ \E ok \in BOOLEAN : QueryInteractions(ok, interactions)
    \/ NextRequest

SpecPage == Init /\ [][NextPage]_vars

(***************************************************************************)
(* SpecPaging: a caller pages through the feed with fetchRestaurants       *)
(* (lib/restaurants.ts 22-66), handing the nextPageToken of each page to   *)
(* the next call.                                                          *)
(***************************************************************************)
\* const body = { lat, lng, radius };
\* if (pageToken && pageToken.trim()) body.pageToken = pageToken
FetchRestaurantsBody(lat, lng, radius, pageToken) ==
    [lat |-> << [type |-> "number", value |-> lat] >>,
     lng |-> << [type |-> "number", value |-> lng] >>,
     radius |-> << radius >>,
     pageToken |-> IF pageToken # <<>> /\ pageToken[1] # <<>> /\ Trim(pageToken[1]) # <<>>
                   THEN pageToken
                   ELSE <<>>]

\* fetchRestaurants posts the request, with the session's token if any.
fetchRestaurants(h) ==
    Request(h, << FetchRestaurantsBody(37, 37, DefaultRadius, nextPage) >>, << "key" >>)

\* Lines 59-65: the response arrives; a response that is not ok is thrown,
\* otherwise the caller holds nextPageToken ?? null for its next call.
ReceivePage ==
    /\ HandlerReady
    /\ nextPage' = IF response.status = 200 THEN response.nextPageToken ELSE nextPage
    /\ UNCHANGED <<interactions, now, viewStartRef, currentIndexRef, cardShownAt,
                   likedIds, bookmarkedIds, bookmarkWrites, bookmarks>>

NextPaging ==
    \/ \E h \in AuthHeaders : fetchRestaurants(h)
    \/ \E throws \in BOOLEAN : GetUser(throws)
    \/ \E outcome \in FetchOutcomes, ps \in SeqsUpTo(FeedPlaces, MaxFetch),
          tok \in PageTokens :
          FetchPlaces(outcome, ps, tok)
    \/ \E ok \in BOOLEAN : QueryInteractions(ok, interactions)
    \/ ReceivePage

SpecPaging == Init /\ [][NextPaging]_vars

\* A request for the first page around a point, with the default radius.
DefaultBody ==
    << [lat |-> << [type |-> "number", value |-> 37] >>,
        lng |-> << [type |-> "number", value |-> 37] >>,
        radius |-> <<>>, pageToken |-> <<>>] >>

(***************************************************************************)
(* SpecFeed: the feed screen of a signed-in user (FeedScreen.tsx 176-298)  *)
(* showing two cards, the table its events go to, and feed requests of the *)
(* same user.                                                              *)
(***************************************************************************)
\* The ids of the restaurants the screen shows, restaurants[0] first.
FeedCards == << <<"a">>, <<"b">> >>

\* The provider's list behind those cards.
FeedList ==
    [i \in 1..Len(FeedCards) |->
        [id |-> <<"places/">> \o FeedCards[i], displayName |-> <<"Cafe">>,
         rating |-> <<40>>, primaryType |-> <<>>, types |-> <<>>, location |-> <<>>]]

\* session.user.id of the signed-in user.
SessionUser == "u1"

\* Milliseconds between two looks at the clock.
ViewSteps == { 5000 }

\* Time passes; the clock of the model only moves forward.
Tick ==
    /\ \E d \in ViewSteps :
          /\ now + d <= MaxTicks * d
          /\ now' = now + d
    /\ UNCHANGED <<interactions, handlerVars, viewStartRef, currentIndexRef, cardShownAt,
                   likedIds, bookmarkedIds, bookmarkWrites, bookmarks, nextPage>>

\* recordViewEnd(index, action): const timeSpentMs = Date.now() - viewStartRef.current;
\* await recordInteraction(restaurant.id, action, timeSpentMs), with the
\* viewStartRef.current the caller left.
recordViewEnd(index, action, viewStart) ==
    InsertInteraction(SessionUser, FeedCards[index + 1],
                      [action |-> action, time_spent_ms |-> now - viewStart])

\* Lines 235-249: another card became the visible one.
handleViewableItemsChanged(newIndex) ==
    /\ currentIndexRef # newIndex
    /\ recordViewEnd(currentIndexRef, "skip", viewStartRef)
    /\ currentIndexRef' = newIndex
    /\ viewStartRef' = now
    /\ cardShownAt' = now
    /\ UNCHANGED <<handlerVars, now, likedIds, bookmarkedIds, bookmarkWrites,
                   bookmarks, nextPage>>

\* Lines 274-282: the like button of the visible card, shown while the card
\* is not liked.
handleLike(index) ==
    /\ FeedCards[index + 1] \notin likedIds
    /\ likedIds' = likedIds \cup { FeedCards[index + 1] }
    /\ viewStartRef' = now
    /\ recordViewEnd(index, "like", viewStartRef')
    /\ UNCHANGED <<handlerVars, now, currentIndexRef, cardShownAt, bookmarkedIds,
                   bookmarkWrites, bookmarks, nextPage>>

\* Lines 284-298: the same button while the card is liked.
handleUnlike(index) ==
    /\ FeedCards[index + 1] \in likedIds
    /\ likedIds' = likedIds \ { FeedCards[index + 1] }
    /\ viewStartRef' = now
    /\ recordViewEnd(index, "unlike", viewStartRef')
    /\ UNCHANGED <<handlerVars, now, currentIndexRef, cardShownAt, bookmarkedIds,
                   bookmarkWrites, bookmarks, nextPage>>

NextFeed ==
    \/ Tick
    \/ \E newIndex \in 0..(Len(FeedCards) - 1) : handleViewableItemsChanged(newIndex)
    \/ handleLike(currentIndexRef)
    \/ handleUnlike(currentIndexRef)
    \/ Request(<< "t1" >>, DefaultBody, << "key" >>)
    \/ \E throws \in BOOLEAN : GetUser(throws)
    \/ \E outcome \in FetchOutcomes : FetchPlaces(outcome, FeedList, <<>>)
    \/ \E ok \in BOOLEAN, table \in Orderings(interactions) :
          QueryInteractions(ok, table)
    \/ NextRequest

SpecFeed == Init /\ [][NextFeed]_vars

(***************************************************************************)
(* SpecStore: everything that writes to the two tables: recordInteraction, *)
(* the bookmark button of the feed screen with addBookmark and             *)
(* removeBookmark (lib/restaurants.ts 84-103), and feed requests.          *)
(***************************************************************************)
\* The events recorded in SpecStore: the signed-in user on place a.
StoreEvents == [user : { SessionUser }, placeId : { <<"a">> }, sig : Signals]

\* supabase.from('bookmarks').insert({ user_id, place_id })
addBookmark(placeId) ==
    [op |-> "insert", user_id |-> SessionUser, place_id |-> placeId, state |-> "sent"]

\* supabase.from('bookmarks').delete().eq('user_id', ...).eq('place_id', placeId)
removeBookmark(placeId) ==
    [op |-> "delete", user_id |-> SessionUser, place_id |-> placeId, state |-> "sent"]

\* FeedScreen.tsx 260-263; the button calls it while the card is not shown
\* as bookmarked (line 89).
handleBookmark(placeId) ==
    /\ placeId \notin bookmarkedIds
    /\ Len(bookmarkWrites) < MaxWrites
    /\ bookmarkWrites' = Append(bookmarkWrites, addBookmark(placeId))
    /\ bookmarkedIds' = bookmarkedIds \cup { placeId }
    /\ UNCHANGED <<interactions, handlerVars, now, viewStartRef, currentIndexRef,
                   cardShownAt, likedIds, bookmarks, nextPage>>

\* FeedScreen.tsx 265-272; the button calls it while the card is shown as
\* bookmarked.
handleUnbookmark(placeId) ==
    /\ placeId \in bookmarkedIds
    /\ Len(bookmarkWrites) < MaxWrites
    /\ bookmarkWrites' = Append(bookmarkWrites, removeBookmark(placeId))
    /\ bookmarkedIds' = bookmarkedIds \ { placeId }
    /\ UNCHANGED <<interactions, handlerVars, now, viewStartRef, currentIndexRef,
                   cardShownAt, likedIds, bookmarks, nextPage>>

HasBookmark(rows, w) ==
    \E i \in 1..Len(rows) : rows[i].user_id = w.user_id /\ rows[i].place_id = w.place_id

\* The table after a write that was accepted: UNIQUE (user_id, place_id)
\* lets an insert add a row only when there is none.
WrittenBookmarks(rows, w) ==
    IF w.op = "insert"
    THEN IF HasBookmark(rows, w) THEN rows
         ELSE Append(rows, [user_id |-> w.user_id, place_id |-> w.place_id])
    ELSE SelectSeq(rows, LAMBDA r : ~(r.user_id = w.user_id /\ r.place_id = w.place_id))

\* One of the writes in flight reaches the table, in any order: it fails
\* (the call did, or the insert met UNIQUE (user_id, place_id)) or it is
\* applied.
BookmarkWrite(i, fails) ==
    /\ i \in 1..Len(bookmarkWrites)
    /\ bookmarkWrites[i].state = "sent"
    /\ LET w == bookmarkWrites[i]
           rejected == fails \/ (w.op = "insert" /\ HasBookmark(bookmarks, w))
       IN  /\ bookmarkWrites' =
                 [bookmarkWrites EXCEPT ![i].state = IF rejected THEN "error" ELSE "ok"]
           /\ bookmarks' = IF rejected THEN bookmarks ELSE WrittenBookmarks(bookmarks, w)
    /\ UNCHANGED <<interactions, handlerVars, now, viewStartRef, currentIndexRef,
                   cardShownAt, likedIds, bookmarkedIds, nextPage>>

NextStore ==
    \/ \E e \in StoreEvents : RecordInteraction(e.user, e.placeId, e.sig)
    \/ \E i \in 1..Len(FeedCards) : handleBookmark(FeedCards[i])
    \/ \E i \in 1..Len(FeedCards) : handleUnbookmark(FeedCards[i])
    \/ \E i \in 1..MaxWrites, fails \in BOOLEAN : BookmarkWrite(i, fails)
    \/ Request(<< "t1" >>, DefaultBody, << "key" >>)
    \/ \E throws \in BOOLEAN : GetUser(throws)
    \/ \E outcome \in FetchOutcomes : FetchPlaces(outcome, FeedList, <<>>)
    \/ \E ok \in BOOLEAN : QueryInteractions(ok, interactions)
    \/ NextRequest

SpecStore == Init /\ [][NextStore]_vars

(***************************************************************************)
(* SpecRank: the ranking pipeline (index.ts 156-218) as a function of the  *)
(* provider list and the interaction map, from the state right after the   *)
(* fold of line 154.                                                       *)
(***************************************************************************)
\* The rows a query delivered when the fold gave imap: one row per entry.
RowsOf(imap) ==
    LET a == IF <<"a">> \in DOMAIN imap
             THEN << [place_id |-> <<"a">>, action |-> imap[<<"a">>].action,
                      time_spent_ms |-> imap[<<"a">>].time_spent_ms] >>
             ELSE <<>>
        b == IF <<"b">> \in DOMAIN imap
             THEN << [place_id |-> <<"b">>, action |-> imap[<<"b">>].action,
                      time_spent_ms |-> imap[<<"b">>].time_spent_ms] >>
             ELSE <<>>
    IN  a \o b

TableOf(log) ==
    [i \in 1..Len(log) |->
        [user_id |-> "u1", place_id |-> log[i].place_id, action |-> log[i].action,
         time_spent_ms |-> log[i].time_spent_ms, created_at |-> Len(log) + 1 - i]]

\* The upstream calls of a request that reached the ranking.
CallsBeforeRanking(h, uid) ==
    (IF h = <<>> THEN <<>>
     ELSE << [to |-> "identity", outcome |-> IF uid = <<>> THEN "none" ELSE "user"] >>)
    \o << [to |-> "provider", outcome |-> "ok"] >>
    \o (IF uid = <<>> THEN <<>> ELSE << [to |-> "store", outcome |-> "ok"] >>)

InitRank ==
    /\ ClientInit
    /\ pc = "rank"
    /\ places \in SeqsUpTo(RawPlaces, MaxPlaces)
    /\ authHeader \in { <<>>, <<"expired">>, <<"t1">> }
    /\ userId = IF authHeader = <<>> THEN <<>> ELSE UserOfCredential(authHeader[1])
    /\ interactionMap \in SignalMaps
    /\ userId = <<>> => interactionMap = EmptyMap
    /\ userInteractions = RowsOf(interactionMap)
    /\ interactions = TableOf(userInteractions)
    /\ body = DefaultBody
    /\ requestBody = << ProviderRequest(body[1]) >>
    /\ calls = CallsBeforeRanking(authHeader, userId)
    /\ nextPageTokenValue = <<>>
    /\ response = NoResponse

\* Lines 156-218.
RankPage ==
    /\ UNCHANGED clientVars
    /\ pc = "rank"
    /\ response' = Success(places, interactionMap, nextPageTokenValue, OriginOf(body[1]))
    /\ pc' = "done"
    /\ UNCHANGED <<interactions, authHeader, body, userId, requestBody, calls, places,
                   nextPageTokenValue, userInteractions, interactionMap>>

NextRank == RankPage

SpecRank == InitRank /\ [][NextRank]_vars

(***************************************************************************)
(* SpecScore: the score of line 167-174 over a wider range of ratings and  *)
(* view times, for a one-place provider list.                              *)
(***************************************************************************)
ScoreRatings == { <<>>, <<0>>, <<40>>, <<45>> }
ScoreTimes == { 0 - 500, 0, 500, 9999, 10000, 10001, 12000, 3600000 }
ScoreSignals == [action : {"like", "skip", "unlike"}, time_spent_ms : ScoreTimes]
ScoredPlaces ==
    [id : { <<"places/", "a">> }, displayName : { <<"Cafe">> }, rating : ScoreRatings,
     primaryType : { <<>> }, types : { <<>> }, location : { <<>> }]
ScoreMaps ==
    { EmptyMap } \cup { [k \in {key} |-> s] : key \in PlaceKeys, s \in ScoreSignals }

InitScore ==
    /\ ClientInit
    /\ pc = "rank"
    /\ places \in [1..1 -> ScoredPlaces]
    /\ authHeader = <<"t1">>
    /\ userId = UserOfCredential(authHeader[1])
    /\ interactionMap \in ScoreMaps
    /\ userInteractions = RowsOf(interactionMap)
    /\ interactions = TableOf(userInteractions)
    /\ body = DefaultBody
    /\ requestBody = << ProviderRequest(body[1]) >>
    /\ calls = CallsBeforeRanking(authHeader, userId)
    /\ nextPageTokenValue = <<>>
    /\ response = NoResponse

SpecScore == InitScore /\ [][NextRank]_vars

(***************************************************************************)
(* SpecOrigin: the ranking of two located places seen from several origins *)
(* of one meridian.                                                        *)
(***************************************************************************)
Meridian == 37
OriginLatitudes == { 35, 37, 40 }
PlaceLatitudes == { 36, 41 }

Origins == [lat : OriginLatitudes, lng : { Meridian }]

OriginBodies ==
    { << [lat |-> << [type |-> "number", value |-> o.lat] >>,
          lng |-> << [type |-> "number", value |-> o.lng] >>,
          radius |-> <<>>, pageToken |-> <<>>] >> : o \in Origins }

Locations ==
    { <<>> } \cup { << [latitude |-> l, longitude |-> Meridian] >> : l \in PlaceLatitudes }

LocatedPlaces ==
    [id : { <<"places/", "a">>, <<"places/", "b">> }, displayName : { <<"Cafe">> },
     rating : { <<40>>, <<45>> }, primaryType : { <<>> }, types : { <<>> },
     location : Locations]

InitOrigin ==
    /\ ClientInit
    /\ pc = "rank"
    /\ places \in [1..2 -> LocatedPlaces]
    /\ authHeader = <<"t1">>
    /\ userId = UserOfCredential(authHeader[1])
    /\ interactionMap \in SignalMaps
    /\ userInteractions = RowsOf(interactionMap)
    /\ interactions = TableOf(userInteractions)
    /\ body \in OriginBodies
    /\ requestBody = << ProviderRequest(body[1]) >>
    /\ calls = CallsBeforeRanking(authHeader, userId)
    /\ nextPageTokenValue = <<>>
    /\ response = NoResponse

SpecOrigin == InitOrigin /\ [][NextRank]_vars

(***************************************************************************)
(* SpecDetails: the id and the cuisine label of line 158-165 over raw ids  *)
(* and type tags of every shape, for a one-place provider list.            *)
(***************************************************************************)
DetailIds ==
    PlaceIds \cup { <<"a", "places/", "b">>, <<"places/", "a", "places/", "b">> }

Tags ==
    { <<>>, <<"cafe">>, <<"coffee", "_", "shop">>, <<"italian", "_", "restaurant">>,
      <<"fast", "_", "food", "_", "restaurant">> }

PrimaryTypes == { <<>> } \cup { << t >> : t \in Tags }

TypeLists == { <<>> } \cup { << ts >> : ts \in UNION { [1..k -> Tags] : k \in 0..2 } }

DetailedPlaces ==
    [id : DetailIds, displayName : { <<"Cafe">> }, rating : { <<40>> },
     primaryType : PrimaryTypes, types : TypeLists, location : { <<>> }]

InitDetails ==
    /\ ClientInit
    /\ pc = "rank"
    /\ places \in [1..1 -> DetailedPlaces]
    /\ authHeader = <<>>
    /\ userId = <<>>
    /\ interactionMap = EmptyMap
    /\ userInteractions = <<>>
    /\ interactions = <<>>
    /\ body = DefaultBody
    /\ requestBody = << ProviderRequest(body[1]) >>
    /\ calls = CallsBeforeRanking(authHeader, userId)
    /\ nextPageTokenValue = <<>>
    /\ response = NoResponse

SpecDetails == InitDetails /\ [][NextRank]_vars

(***************************************************************************)
(* Properties of the returned page.                                        *)
(***************************************************************************)
Returned == pc = "done" /\ response.status = 200

HasDisplayName(p) == p.displayName # <<>>

\* The score of a returned record, from its rating and the signal of its id.
ReturnedScore(r) ==
    Score(r.rating,
          IF r.id \in DOMAIN interactionMap THEN << interactionMap[r.id] >> ELSE <<>>)

\* The record a raw place is returned as.
ReturnedAs(p) == StripScore(Normalize(p, interactionMap, OriginOf(body[1])))

\* The ways to name, for each of m returned records, a different one of n
\* raw places.
Choices(m, n) == { f \in [1..m -> 1..n] : \A i, j \in 1..m : f[i] = f[j] => i = j }

\* C1: the returned list is ordered by score descending: of two adjacent
\* returned records the earlier has a score (rating*20 plus its interaction
\* adjustment) greater than or equal to that of the later.
C1_SortedByScoreDescending ==
    Returned =>
        \A k \in 1..(Len(response.restaurants) - 1) :
            ReturnedScore(response.restaurants[k])
                >= ReturnedScore(response.restaurants[k + 1])

\* C1 witness: two named places came in ascending score order and both were
\* returned.
C1_Witness ==
    /\ Returned
    /\ Len(places) = 2
    /\ Len(response.restaurants) = 2
    /\ ScoreOf(places[1], interactionMap) < ScoreOf(places[2], interactionMap)

\* C2: ties are stable: the returned records can be traced to distinct raw
\* places such that two records of exactly equal score stand in the order
\* their raw places had in the provider's list.
C2_TiesKeepProviderOrder ==
    Returned =>
        \E f \in Choices(Len(response.restaurants), Len(places)) :
            /\ \A k \in 1..Len(response.restaurants) :
                   response.restaurants[k] = ReturnedAs(places[f[k]])
            /\ \A k, l \in 1..Len(response.restaurants) :
                   ( /\ k < l
                     /\ ReturnedScore(response.restaurants[k])
                            = ReturnedScore(response.restaurants[l]) )
                   => f[k] < f[l]

\* C2 witness: two different records of equal score were returned.
C2_Witness ==
    /\ Returned
    /\ Len(response.restaurants) = 2
    /\ response.restaurants[1] # response.restaurants[2]
    /\ ReturnedScore(response.restaurants[1]) = ReturnedScore(response.restaurants[2])

NoEqualScoresAmongNamed ==
    \A i, j \in 1..Len(places) :
        ( /\ i # j
          /\ HasDisplayName(places[i])
          /\ HasDisplayName(places[j]) )
        => ScoreOf(places[i], interactionMap) # ScoreOf(places[j], interactionMap)

\* C3: when no two named places have exactly equal scores, every reordering
\* of the provider list, ranked with the same interaction map, gives the list
\* that was returned.
C3_ReorderingKeepsOutput ==
    (Returned /\ NoEqualScoresAmongNamed) =>
        \A q \in Orderings(places) :
            Restaurants(q, interactionMap, OriginOf(body[1])) = response.restaurants

\* C3 witness: two named places of different scores, the lower one first, were
\* ranked.
C3_Witness ==
    /\ Returned
    /\ NoEqualScoresAmongNamed
    /\ Len(places) = 2
    /\ HasDisplayName(places[1])
    /\ HasDisplayName(places[2])
    /\ Len(response.restaurants) = 2
    /\ ScoreOf(places[1], interactionMap) < ScoreOf(places[2], interactionMap)
    /\ interactionMap # EmptyMap

\* C4: a raw place without a display name is never returned, whatever its
\* rating and its interaction signal.
C4_NamelessNeverReturned ==
    Returned =>
        \A i \in 1..Len(places) :
            ~HasDisplayName(places[i]) =>
                \A k \in 1..Len(response.restaurants) :
                    response.restaurants[k] # ReturnedAs(places[i])

\* C4 witness: a nameless place with a rating and a like outscored a named
\* place that was returned.
C4_Witness ==
    /\ Returned
    /\ Len(places) = 2
    /\ ~HasDisplayName(places[1])
    /\ places[1].rating = <<40>>
    /\ PlaceIdOf(places[1]) \in DOMAIN interactionMap
    /\ interactionMap[PlaceIdOf(places[1])].action = "like"
    /\ Len(response.restaurants) = 1
    /\ ScoreOf(places[1], interactionMap) > ScoreOf(places[2], interactionMap)

\* C5: every returned restaurant has a non-empty name, also when a raw
\* place carries a display-name record whose text is empty.
C5_NamesNonEmpty ==
    Returned =>
        \A k \in 1..Len(response.restaurants) : response.restaurants[k].name # ""

\* C6: each place id appears at most once in the returned list, also when the
\* provider returns a place twice or two ids that are equal once the prefix is
\* stripped.
C6_IdsUnique ==
    Returned =>
        \A k, l \in 1..Len(response.restaurants) :
            response.restaurants[k].id = response.restaurants[l].id => k = l

NamedIndexes == { i \in 1..Len(places) : HasDisplayName(places[i]) }

\* C7: only nameless records are dropped, and dropping is no error: the
\* request succeeds and the returned list holds exactly one record for each
\* raw place that has a display name, whatever its text, and no other record.
C7_ExactlyTheNamedReturned ==
    pc = "done" =>
        /\ response.status = 200
        /\ Len(response.restaurants) = Cardinality(NamedIndexes)
        /\ \E f \in Choices(Len(response.restaurants), Len(places)) :
               \A k \in 1..Len(response.restaurants) :
                   /\ f[k] \in NamedIndexes
                   /\ response.restaurants[k] = ReturnedAs(places[f[k]])

\* C10: a place without an entry in the signal map is scored rating*20, an
\* absent rating counting as 0 (a rating of 4.0 gives 80 points); without an
\* identity the map is empty and the list is ranked by rating alone.
C10_NoSignalScoresRatingOnly ==
    /\ \A i \in 1..Len(places) :
           PlaceIdOf(places[i]) \notin DOMAIN interactionMap =>
               /\ places[i].rating = <<>> => ScoreOf(places[i], interactionMap) = 0
               /\ places[i].rating = <<40>> =>
                      ScoreOf(places[i], interactionMap) = 80 * 1000
               /\ places[i].rating # <<>> =>
                      ScoreOf(places[i], interactionMap)
                          = places[i].rating[1] * 20 * 100
    /\ (Returned /\ userId = <<>>) =>
           /\ interactionMap = EmptyMap
           /\ \A k \in 1..(Len(response.restaurants) - 1) :
                  response.restaurants[k].rating >= response.restaurants[k + 1].rating

\* C10 witness: no identity was resolved from a supplied credential, and an
\* unrated named place that came first was ranked behind a place rated 4.0.
C10_Witness ==
    /\ Returned
    /\ authHeader # <<>>
    /\ userId = <<>>
    /\ Len(places) = 2
    /\ places[1].rating = <<>>
    /\ places[2].rating = <<40>>
    /\ Len(response.restaurants) = 2
    /\ response.restaurants[1].rating = 40
    /\ response.restaurants[2].rating = 0

(***************************************************************************)
(* Properties of the aggregator.                                           *)
(***************************************************************************)
SignalOfRow(r) == [action |-> r.action, time_spent_ms |-> r.time_spent_ms]

\* The first row of a delivered log that is about place k, if there is one.
FirstDelivered(log, k) ==
    IF \E i \in 1..Len(log) : log[i].place_id = k
    THEN << SignalOfRow(log[CHOOSE i \in 1..Len(log) :
                                /\ log[i].place_id = k
                                /\ \A j \in 1..(i - 1) : log[j].place_id # k]) >>
    ELSE <<>>

\* The log of the example: a skip of 500 ms at t=1, then a like of 9000 ms at
\* t=2, both of place X by one user.
ExampleTable ==
    << [user_id |-> "u1", place_id |-> <<"X">>, action |-> "skip",
        time_spent_ms |-> 500, created_at |-> 1],
       [user_id |-> "u1", place_id |-> <<"X">>, action |-> "like",
        time_spent_ms |-> 9000, created_at |-> 2] >>

\* C8: most recent event wins: the interaction map has exactly one entry per
\* place id of the log delivered most-recent-first, the entry is the action
\* and time-spent of the first (most recent) event of that place, and the
\* later (older) events of the place change no score; the example log yields
\* {X: like, 9000}.
C8_MostRecentEventWins ==
    /\ Returned =>
          /\ DOMAIN interactionMap
                 = { userInteractions[i].place_id : i \in 1..Len(userInteractions) }
          /\ \A k \in DOMAIN interactionMap :
                 << interactionMap[k] >> = FirstDelivered(userInteractions, k)
          /\ \A i \in 1..Len(places) :
                 ScoreOf(places[i], interactionMap)
                     = Score(RatingOf(places[i]),
                             FirstDelivered(userInteractions, PlaceIdOf(places[i])))
    /\ \A table \in Orderings(ExampleTable) :
          /\ DOMAIN InteractionMap(QueryInteractionRows(table, "u1")) = { <<"X">> }
          /\ InteractionMap(QueryInteractionRows(table, "u1"))[<<"X">>]
                 = [action |-> "like", time_spent_ms |-> 9000]

\* C8 witness: the user skipped a place and liked it later; the request ranked
\* that place with the like.
C8_Witness ==
    /\ Returned
    /\ Len(userInteractions) = 2
    /\ userInteractions[1].place_id = userInteractions[2].place_id
    /\ userInteractions[1].action = "like"
    /\ userInteractions[2].action = "skip"
    /\ Len(places) = 1
    /\ PlaceIdOf(places[1]) = userInteractions[1].place_id
    /\ interactionMap[PlaceIdOf(places[1])].action = "like"
    /\ Len(response.restaurants) = 1

RowsOfUserAndPlace(u, k) ==
    { i \in 1..Len(interactions) :
          interactions[i].user_id = u /\ interactions[i].place_id = k }

\* The rows of user u about place k that no other such row is newer than.
LatestRows(u, k) ==
    { i \in RowsOfUserAndPlace(u, k) :
          \A j \in RowsOfUserAndPlace(u, k) :
              interactions[j].created_at <= interactions[i].created_at }

CreatedAtDistinctPerPlace ==
    \A i, j \in 1..Len(interactions) :
        ( /\ i # j
          /\ interactions[i].user_id = interactions[j].user_id
          /\ interactions[i].place_id = interactions[j].place_id )
        => interactions[i].created_at # interactions[j].created_at

\* C9 as stated: the signal map is the same for every order in which the
\* store holds and delivers the same events.
C9_MapIndependentOfDeliveryOrder ==
    \A table \in Orderings(interactions) :
        \A u \in Users :
            InteractionMap(QueryInteractionRows(table, u))
                = InteractionMap(QueryInteractionRows(interactions, u))

\* C9 amended: for every order of the same events the aggregator (the query
\* ordered by created_at descending, then the fold) yields, for each place id
\* of the user, an event of that place with the latest creation time; the map
\* is the same for every order when no two events of one user and place have
\* the same created_at.
C9_LatestCreatedAtWins ==
    \A table \in Orderings(interactions) :
        \A u \in Users :
            LET m == InteractionMap(QueryInteractionRows(table, u))
            IN  /\ DOMAIN m = { interactions[i].place_id :
                                    i \in { j \in 1..Len(interactions) :
                                                interactions[j].user_id = u } }
                /\ \A k \in DOMAIN m :
                       \E i \in LatestRows(u, k) : m[k] = SignalOfRow(interactions[i])
                /\ CreatedAtDistinctPerPlace =>
                       m = InteractionMap(QueryInteractionRows(interactions, u))

\* C9 witness: the table holds an older like and a newer unlike of one place
\* by one user, and a request of that user was answered from the unlike.
C9_Witness ==
    /\ Returned
    /\ Len(interactions) = 2
    /\ interactions[1].user_id = "u1"
    /\ interactions[2].user_id = "u1"
    /\ interactions[1].place_id = interactions[2].place_id
    /\ interactions[1].action = "like"
    /\ interactions[2].action = "unlike"
    /\ interactions[1].created_at < interactions[2].created_at
    /\ userId = << "u1" >>
    /\ Len(userInteractions) = 2
    /\ interactionMap[interactions[1].place_id].action = "unlike"

(***************************************************************************)
(* Scores of places with a signal (SpecScore).                             *)
(***************************************************************************)
\* The places of the ranked list whose latest signal is the given action.
PlacesWithAction(action) ==
    { i \in 1..Len(places) :
        /\ InteractionOf(places[i], interactionMap) # <<>>
        /\ InteractionOf(places[i], interactionMap)[1].action = action }

TimeSpentOf(i) == InteractionOf(places[i], interactionMap)[1].time_spent_ms

\* C11: a place whose signal is like with time-spent t ms is scored
\* rating * 20 + 50 + min(t / 1000, 10) points; rating 4.0 with 12000 ms
\* scores 140.
C11_LikeScore ==
    Returned =>
        \A i \in PlacesWithAction("like") :
            /\ ScoreOf(places[i], interactionMap) =
                   RatingOf(places[i]) * 2000 + 50000
                   + (IF TimeSpentOf(i) <= 10000 THEN TimeSpentOf(i) ELSE 10000)
            /\ (RatingOf(places[i]) = 40 /\ TimeSpentOf(i) = 12000)
                   => ScoreOf(places[i], interactionMap) = 140000

C11_Witness ==
    /\ Returned
    /\ \E i \in PlacesWithAction("like") :
          RatingOf(places[i]) = 40 /\ TimeSpentOf(i) = 12000

\* C12: a place whose signal is unlike is scored rating * 20 - 30 points
\* whatever its time-spent value; rating 4.0 with 12000 ms scores 50.
C12_UnlikeScore ==
    Returned =>
        \A i \in PlacesWithAction("unlike") :
            /\ ScoreOf(places[i], interactionMap) = RatingOf(places[i]) * 2000 - 30000
            /\ (RatingOf(places[i]) = 40 /\ TimeSpentOf(i) = 12000)
                   => ScoreOf(places[i], interactionMap) = 50000

C12_Witness ==
    /\ Returned
    /\ \E i \in PlacesWithAction("unlike") :
          RatingOf(places[i]) = 40 /\ TimeSpentOf(i) = 12000

\* C13: a place whose signal is skip with time-spent t ms is scored
\* rating * 20 + min(t / 1000, 10) points: nothing but the view-time bonus is
\* added, and the bonus is at most 10 points however large t is.
C13_SkipScore ==
    Returned =>
        \A i \in PlacesWithAction("skip") :
            LET bonus == ScoreOf(places[i], interactionMap) - RatingOf(places[i]) * 2000
            IN  /\ bonus = IF TimeSpentOf(i) <= 10000 THEN TimeSpentOf(i) ELSE 10000
                /\ bonus <= 10000

C13_Witness ==
    /\ Returned
    /\ \E i \in PlacesWithAction("skip") : TimeSpentOf(i) = 3600000
    /\ Len(response.restaurants) = 1

(***************************************************************************)
(* The returned shape (SpecRank).                                          *)
(***************************************************************************)
\* C14: no record of the returned restaurants list carries the internal
\* score field: the ranking key every record was sorted by is removed from
\* every record of the response.  (The handler has no diagnostics mode.)
C14_NoScoreFieldReturned ==
    Returned =>
        \A k \in 1..Len(response.restaurants) :
            /\ "_score" \notin DOMAIN response.restaurants[k]
            /\ \E i \in 1..Len(places) :
                  /\ "_score" \in DOMAIN Normalize(places[i], interactionMap, OriginOf(body[1]))
                  /\ \A f \in DOMAIN response.restaurants[k] :
                        response.restaurants[k][f] =
                            Normalize(places[i], interactionMap, OriginOf(body[1]))[f]

C14_Witness ==
    /\ Returned
    /\ Len(response.restaurants) = 2
    /\ \E i \in 1..Len(places) :
          /\ HasDisplayName(places[i])
          /\ InteractionOf(places[i], interactionMap) # <<>>

(***************************************************************************)
(* Paging and the search posted to the provider (SpecPage).                *)
(***************************************************************************)
\* A token that is null, absent, empty or made of white space only.
Blank(v) == v = <<>> \/ \A i \in 1..Len(v[1]) : v[1][i] = " "

\* C15: when the provider's continuation token is null, absent, the empty
\* string or only white space, the response's nextPageToken is null; for
\* every other token the response's nextPageToken is that token, unchanged.
C15_ContinuationTokenPassedThrough ==
    Returned =>
        response.nextPageToken =
            IF Blank(nextPageTokenValue) THEN <<>> ELSE nextPageTokenValue

C15_Witness ==
    /\ Returned
    /\ nextPageTokenValue = << <<" ", "t", " ">> >>
    /\ response.nextPageToken = << <<" ", "t", " ">> >>

Called(service) == \E i \in 1..Len(calls) : calls[i].to = service

CalledWith(service, outcomes) ==
    \E i \in 1..Len(calls) : calls[i].to = service /\ calls[i].outcome \in outcomes

\* The request gives no latitude or longitude that is a number.
OriginMissingOrNotNumber ==
    body = <<>> \/ ~IsNumber(body[1].lat) \/ ~IsNumber(body[1].lng)

\* C17: a request whose latitude or longitude is missing or is not a number
\* is rejected with the bad-input error (400), and no call is made for it to
\* the identity resolver, the places provider or the interaction store.
C17_BadOriginRejectedWith400 ==
    (pc = "done" /\ OriginMissingOrNotNumber) =>
        /\ response.status = 400
        /\ ~Called("identity") /\ ~Called("provider") /\ ~Called("store")

ProviderFailed == CalledWith("provider", {"threw", "status"})

\* C18: when the provider call fails (it throws or answers with a status that
\* is not a success), the response is an error and holds no restaurants
\* list, partial or otherwise.
C18_NoListWhenProviderFails ==
    (pc = "done" /\ ProviderFailed) =>
        /\ response.status >= 400
        /\ "error" \in DOMAIN response
        /\ "restaurants" \notin DOMAIN response

C18_Witness ==
    /\ pc = "done"
    /\ CalledWith("provider", {"status"})
    /\ CalledWith("identity", {"user"})
    /\ interactions # <<>>

\* C19: every failure of the provider call, a throw or a status that is not a
\* success, is reported as the one upstream-fetch error, and no other outcome
\* of the handler is reported as that error.
C19_OneUpstreamFetchError ==
    pc = "done" => (ProviderFailed <=> response = UpstreamFailed)

\* C20: when the identity lookup fails (it throws or finds no user) and the
\* provider call succeeds, the request succeeds, the interaction store is not
\* consulted and the list is the unpersonalized ranking: every score is
\* rating * 20.
C20_IdentityFailureIsAbsorbed ==
    (pc = "done" /\ CalledWith("identity", {"threw", "none"})
                 /\ CalledWith("provider", {"ok"})) =>
        /\ response.status = 200
        /\ ~Called("store")
        /\ \A i \in 1..Len(places) :
              ScoreOf(places[i], interactionMap) = RatingOf(places[i]) * 2000
        /\ response.restaurants = Restaurants(places, EmptyMap, OriginOf(body[1]))

C20_Witness ==
    /\ pc = "done"
    /\ authHeader = << "t1" >>
    /\ CalledWith("identity", {"threw"})
    /\ CalledWith("provider", {"ok"})
    /\ Len(response.restaurants) = 1
    /\ \E i \in 1..Len(interactions) :
          /\ interactions[i].user_id = "u1"
          /\ interactions[i].action = "like"
          /\ interactions[i].place_id = response.restaurants[1].id

ProviderCalls == { i \in 1..Len(calls) : calls[i].to = "provider" }

\* C21: no retry: while one request is handled the places provider is called
\* at most once, and a failed provider call is the last call of the request:
\* the error response is produced with it.
C21_ProviderCalledAtMostOnce ==
    /\ Cardinality(ProviderCalls) <= 1
    /\ ProviderFailed =>
          /\ pc = "done"
          /\ response.status >= 400
          /\ calls[Len(calls)].to = "provider"

C21_Witness ==
    /\ pc = "done"
    /\ CalledWith("provider", {"threw"})
    /\ Cardinality(ProviderCalls) = 1
    /\ response = InternalError

(***************************************************************************)
(* Ids and cuisine labels (SpecDetails).                                   *)
(***************************************************************************)
\* C23: the id of a returned restaurant is the raw id without its leading
\* "places/" when the raw id starts with that prefix, and the raw id
\* unchanged in every other case, also when "places/" occurs later in it.
C23_OnlyLeadingPrefixRemoved ==
    (Returned /\ Len(places) = 1) =>
        /\ Len(response.restaurants) = 1
        /\ response.restaurants[1].id =
              IF places[1].id # <<>> /\ places[1].id[1] = "places/"
              THEN Tail(places[1].id)
              ELSE places[1].id

\* The tag with every underscore turned into a space.
IsSpaced(label, tag) ==
    /\ Len(label) = Len(tag)
    /\ \A i \in 1..Len(tag) :
          /\ tag[i] = "_" => label[i] = " "
          /\ tag[i] # "_" => label[i] = tag[i]

RestaurantTypes(p) ==
    IF p.types = <<>> THEN {}
    ELSE { i \in 1..Len(p.types[1]) :
             \E j \in 1..Len(p.types[1][i]) : p.types[1][i][j] = "restaurant" }

\* C24: the cuisine label is the primary type tag when the raw place has
\* one, otherwise the first secondary type tag that contains "restaurant",
\* otherwise "Restaurant"; every underscore of the tag is a space in the label.
C24_CuisineLabel ==
    (Returned /\ Len(places) = 1 /\ Len(response.restaurants) = 1) =>
        LET p == places[1]
            label == response.restaurants[1].cuisine
        IN  /\ p.primaryType # <<>> => IsSpaced(label, p.primaryType[1])
            /\ (p.primaryType = <<>> /\ RestaurantTypes(p) # {}) =>
                  \E i \in RestaurantTypes(p) :
                      /\ \A j \in RestaurantTypes(p) : i <= j
                      /\ IsSpaced(label, p.types[1][i])
            /\ (p.primaryType = <<>> /\ RestaurantTypes(p) = {}) =>
                  label = << "Restaurant" >>

C24_Witness ==
    /\ Returned
    /\ Len(places) = 1
    /\ places[1].primaryType = <<>>
    /\ places[1].types =
          << << <<"cafe">>, <<"fast", "_", "food", "_", "restaurant">> >> >>
    /\ response.restaurants[1].cuisine = <<"fast", " ", "food", " ", "restaurant">>

(***************************************************************************)
(* The view-time bonus over every stored time (SpecScore).                 *)
(***************************************************************************)
\* C27: the view-time bonus is never negative: for every stored event whose
\* action is not unlike, the amount added for view time lies between 0 and
\* 10 points, so such an event never brings a score below rating * 20.
C27_ViewTimeBonusNotNegative ==
    Returned =>
        \A i \in PlacesWithAction("like") \cup PlacesWithAction("skip") :
            LET base == RatingOf(places[i]) * 2000
                delta == IF i \in PlacesWithAction("like") THEN 50000 ELSE 0
                bonus == ScoreOf(places[i], interactionMap) - base - delta
            IN  /\ bonus >= 0
                /\ bonus <= 10000
                /\ ScoreOf(places[i], interactionMap) >= base

(***************************************************************************)
(* The ranking and the search origin (SpecOrigin).                         *)
(***************************************************************************)
\* C28: the ranking does not depend on the search origin or on distance: a
\* request from any other origin that receives the same provider list and
\* the same interaction log returns the same restaurant ids in the same
\* order, and its records differ in the distance field at most.
C28_RankingIgnoresOrigin ==
    Returned =>
        \A o \in Origins :
            LET other == Restaurants(places, interactionMap, o)
            IN  /\ Len(other) = Len(response.restaurants)
                /\ \A k \in 1..Len(other) :
                      \A f \in DOMAIN other[k] \ {"distanceMeters"} :
                          other[k][f] = response.restaurants[k][f]

C28_Witness ==
    /\ Returned
    /\ Len(response.restaurants) = 2
    /\ response.restaurants[1].id # response.restaurants[2].id
    /\ response.restaurants[1].distanceMeters # <<>>
    /\ response.restaurants[2].distanceMeters # <<>>
    /\ response.restaurants[1].distanceMeters[1] > response.restaurants[2].distanceMeters[1]
    /\ \E o \in Origins :
          Restaurants(places, interactionMap, o)[1].distanceMeters[1]
              < Restaurants(places, interactionMap, o)[2].distanceMeters[1]

(***************************************************************************)
(* Paging with fetchRestaurants (SpecPaging).                              *)
(***************************************************************************)
\* C30: continuation tokens round-trip as opaque values: when the
\* nextPageToken of the last page is supplied as pageToken, the token posted
\* to the provider is that token character for character; with a missing or
\* blank token no token is posted.
C30_TokenRoundTrip ==
    requestBody # <<>> =>
        requestBody[1].pageToken = IF Blank(nextPage) THEN <<>> ELSE nextPage

(***************************************************************************)
(* The feed screen's events (SpecFeed).                                    *)
(***************************************************************************)
\* A step that stores one more event.
EventRecorded == Len(interactions') = Len(interactions) + 1

\* C25: the time-spent value recorded with an event is the time the card had
\* been the visible one when the user acted: a like or unlike tapped d ms
\* after the card became visible is recorded with time_spent_ms d, as a skip.
C25_TimeSpentIsViewTime ==
    [][EventRecorded =>
          interactions'[Len(interactions')].time_spent_ms = now - cardShownAt]_vars

\* The user's last like or unlike of a place is a like.
LikedLast(log, placeId) ==
    \E i \in 1..Len(log) :
        /\ log[i].user_id = SessionUser /\ log[i].place_id = placeId
        /\ log[i].action = "like"
        /\ \A j \in (i + 1)..Len(log) :
              ~(/\ log[j].user_id = SessionUser /\ log[j].place_id = placeId
                /\ log[j].action \in {"like", "unlike"})

\* C26: a like persists until it is undone: when the user's last like or
\* unlike of a place is a like, a feed request of that user scores the place
\* with the +50 like adjustment, whatever was scrolled past since.
C26_LikePersists ==
    [][(pc = "query" /\ pc' = "done" /\ calls'[Len(calls')].outcome = "ok") =>
          \A i \in 1..Len(places) :
              LikedLast(interactions, PlaceIdOf(places[i])) =>
                  /\ InteractionOf(places[i], interactionMap') # <<>>
                  /\ InteractionOf(places[i], interactionMap')[1].action = "like"
                  /\ ScoreOf(places[i], interactionMap') >=
                         RatingOf(places[i]) * 2000 + 50000]_vars

(***************************************************************************)
(* The two tables (SpecStore).                                             *)
(***************************************************************************)
\* C22: the interaction log is append-only: no step changes or removes an
\* event that is in the log; a step of a feed request or of the bookmark
\* flow leaves the log as it is, and recordInteraction adds one event.
C22_LogAppendOnly ==
    [][/\ Len(interactions') >= Len(interactions)
       /\ Len(interactions') <= Len(interactions) + 1
       /\ \A i \in 1..Len(interactions) : interactions'[i] = interactions[i]
       /\ handlerVars' # handlerVars => interactions' = interactions
       /\ <<bookmarkedIds, bookmarkWrites, bookmarks>>'
              # <<bookmarkedIds, bookmarkWrites, bookmarks>>
            => interactions' = interactions]_vars

C22_Witness ==
    /\ Len(interactions) = 2
    /\ interactions[1].place_id = interactions[2].place_id
    /\ pc = "done" /\ response.status = 200
    /\ \E i \in 1..Len(bookmarkWrites) :
          bookmarkWrites[i].op = "delete" /\ bookmarkWrites[i].state = "ok"

AllWritesSucceeded ==
    \A i \in 1..Len(bookmarkWrites) : bookmarkWrites[i].state = "ok"

BookmarkRows(placeId) ==
    { i \in 1..Len(bookmarks) :
        bookmarks[i].user_id = SessionUser /\ bookmarks[i].place_id = placeId }

\* C29: bookmark state converges: once every write issued by addBookmark and
\* removeBookmark has completed successfully, in whatever order the writes
\* reached the store, a place is in the stored bookmarks exactly when it is
\* in the screen's bookmarkedIds, and the store holds at most one row for
\* the user and the place.
C29_BookmarksConverge ==
    AllWritesSucceeded =>
        \A i \in 1..Len(FeedCards) :
            /\ BookmarkRows(FeedCards[i]) # {} <=> FeedCards[i] \in bookmarkedIds
            /\ Cardinality(BookmarkRows(FeedCards[i])) <= 1

====
